---- MODULE Spec2Model ----
(***************************************************************************)
(* cbz_renamer (main.py): a walker over an input directory that rebuilds   *)
(* every .cbz/.zip archive it finds into an output directory, renaming the *)
(* archive's members with build_rename_mapping.                            *)
(*                                                                         *)
(* A file name is a sequence of one-character strings, a path (pathlib     *)
(* Path) is a sequence of names, and the filesystem is a function from     *)
(* the paths that exist to [kind, data].                                   *)
(***************************************************************************)
EXTENDS Integers, Sequences, FiniteSets, TLC

VARIABLES
    fs,       \* the filesystem: path -> [kind, data]
    pc,       \* where the program is
    mapping,  \* the dict build_rename_mapping returned
    stack,    \* the process_path calls in progress, innermost last
    rb,       \* the arguments and temporary directory of the rebuild_cbz call
    trace,    \* the decisions of this run, in order (the debug log)
    run,      \* which run this is and how the previous one ended
    fs0,      \* the filesystem when this run started
    result    \* what validate_input_path returned

vars == <<fs, pc, mapping, stack, rb, trace, run, fs0, result>>

\* ---------------------------------------------------------------- bounds
MaxZipDepth == 3
MaxZipFiles == 2

MaxTreeEntries == 3

\* ----------------------------------------------------------------- names
NTmp == <<"t">>
NIn == <<"i">>
NOut == <<"o">>
NSub == <<"s">>
NCbz == <<"a", ".", "c", "b", "z">>
NZipUpper == <<"A", ".", "Z", "I", "P">>
NTxt == <<"n", ".", "t", "x", "t">>
SegNames == {<<"a">>, <<"b">>}
EntryNames == {NCbz, NZipUpper, NSub}
ValidateNames == {NCbz, NZipUpper, NTxt, NSub}
TmpNames == {<<"x">>, <<"y">>}

VALID_SUFFIXES == {<<".", "c", "b", "z">>, <<".", "z", "i", "p">>}

None == <<>>

\* ------------------------------------------------------------ filesystem
\* file contents: plain bytes (tagged by a value), or a zip archive holding
\* members [name, data]
Bytes(b) == [zip |-> FALSE, members |-> {}, bytes |-> b]
Archive(ms) == [zip |-> TRUE, members |-> ms, bytes |-> <<>>]
NoData == Bytes(<<>>)

Dir == [kind |-> "dir", data |-> NoData]
Other == [kind |-> "other", data |-> NoData]
File(d) == [kind |-> "file", data |-> d]
Missing == [kind |-> "none", data |-> NoData]

Entry(f, p) == IF p \in DOMAIN f THEN f[p] ELSE Missing
name(p) == p[Len(p)]
parent(p) == SubSeq(p, 1, Len(p) - 1)

is_dir(f, p) == p \in DOMAIN f /\ f[p].kind = "dir"
is_file(f, p) == p \in DOMAIN f /\ f[p].kind = "file"

IsPrefix(p, q) == Len(p) <= Len(q) /\ SubSeq(q, 1, Len(p)) = p
Under(p, q) == IsPrefix(p, q) /\ Len(p) < Len(q)

iterdir(f, p) == {q \in DOMAIN f : Len(q) = Len(p) + 1 /\ IsPrefix(p, q)}

relative_to(p, prefix) == SubSeq(p, Len(prefix) + 1, Len(p))

\* ------------------------------------------------------- string helpers
RECURSIVE as_posix(_)
as_posix(p) ==
    IF Len(p) = 0 THEN <<>>
    ELSE IF Len(p) = 1 THEN p[1]
    ELSE p[1] \o <<"/">> \o as_posix(Tail(p))

replace(s, old, new) == [i \in 1..Len(s) |-> IF s[i] = old THEN new ELSE s[i]]

\* pathlib parses a string operand into its segments at every "/"
RECURSIVE ParseParts(_, _)
ParseParts(s, acc) ==
    IF Len(s) = 0 THEN (IF acc = <<>> THEN <<>> ELSE <<acc>>)
    ELSE IF Head(s) = "/"
         THEN (IF acc = <<>> THEN <<>> ELSE <<acc>>) \o ParseParts(Tail(s), <<>>)
         ELSE ParseParts(Tail(s), Append(acc, Head(s)))

joinpath(p, s) == p \o ParseParts(s, <<>>)

\* ------------------------------------------------- build_rename_mapping
EmptyDict == <<>>
DictSet(m, k, v) == (k :> v) @@ m
\* a merge that keeps only the sub-call's entries
DictUpdateLost(m, n) == n
\* dict.update: the entries of n are added to m
DictUpdate(m, n) == n @@ m

NewPath(zip_path) == joinpath(zip_path, replace(as_posix(zip_path), "/", "_"))

RECURSIVE build_rename_mapping(_, _, _)
RECURSIVE MappingLoop(_, _, _, _)
MappingLoop(f, todo, prefix, m) ==
    IF todo = {} THEN m
    ELSE LET sub_path == CHOOSE s \in todo : TRUE
             m2 == IF is_dir(f, sub_path)
                     THEN DictUpdate(m, build_rename_mapping(f, sub_path, prefix))
                   ELSE IF ~is_file(f, sub_path) THEN m
                   ELSE DictSet(m, sub_path, NewPath(relative_to(sub_path, prefix)))
         IN MappingLoop(f, todo \ {sub_path}, prefix, m2)

build_rename_mapping(f, path, prefix) ==
    LET pre == IF prefix = None THEN path ELSE prefix
    IN MappingLoop(f, iterdir(f, path), pre, EmptyDict)

\* ------------------------------------------------------- extracted trees
\* every relative path of at most d segments
RECURSIVE RelPaths(_)
RelPaths(d) ==
    IF d = 0 THEN {<<>>}
    ELSE LET shorter == RelPaths(d - 1)
         IN shorter \cup {Append(p, n) : p \in shorter, n \in SegNames}

ZipPaths == RelPaths(MaxZipDepth) \ {<<>>}

\* the leaves of a tree: no leaf lies under another one
LeafSets ==
    {S \in {{ls[i] : i \in 1..MaxZipFiles} : ls \in [1..MaxZipFiles -> ZipPaths]} :
        \A p \in S, q \in S : ~Under(p, q)}

\* the tree rooted at root whose leaves have the given entries
TreeOf(root, leaves) ==
    LET inner == UNION {{root \o SubSeq(p, 1, k) : k \in 0..(Len(p) - 1)} :
                            p \in DOMAIN leaves}
    IN [q \in inner \cup {root \o p : p \in DOMAIN leaves} |->
            IF q \in inner THEN Dir ELSE leaves[relative_to(q, root)]]

LeafKinds == {Dir, Other, File(Bytes(<<1>>)), File(Bytes(<<2>>))}

TmpDir == <<NTmp>>

NoRebuild == [input_file |-> <<>>, output_file |-> <<>>, tmp_dir |-> <<>>]
NoRun == [input_path |-> <<>>, output_path |-> <<>>, force |-> FALSE, recurse |-> FALSE,
          rerun |-> FALSE, prev_done |-> FALSE]

InitMapping ==
    /\ \E S \in LeafSets : \E leaves \in [S -> LeafKinds] :
          fs = TreeOf(TmpDir, leaves)
    /\ pc = "map"
    /\ mapping = EmptyDict
    /\ stack = <<>>
    /\ rb = NoRebuild
    /\ trace = <<>>
    /\ run = NoRun
    /\ fs0 = fs
    /\ result = FALSE

ComputeMapping ==
    /\ pc = "map"
    /\ mapping' = build_rename_mapping(fs, TmpDir, None)
    /\ pc' = "mapped"
    /\ UNCHANGED <<fs, stack, rb, trace, run, fs0, result>>

NextMapping == ComputeMapping

SpecMapping == InitMapping /\ [][NextMapping]_vars


\* ------------------------------------------------------ Path.suffix, lower
LowerChar(c) ==
    CASE c = "A" -> "a" [] c = "B" -> "b" [] c = "C" -> "c" [] c = "I" -> "i"
      [] c = "P" -> "p" [] c = "Z" -> "z" [] OTHER -> c

lower(s) == [i \in 1..Len(s) |-> LowerChar(s[i])]

\* PurePath.suffix: from the last dot, unless the name starts or ends with it
suffix(n) ==
    LET dots == {i \in 1..Len(n) : n[i] = "."}
    IN IF dots = {} THEN <<>>
       ELSE LET i == CHOOSE d \in dots : \A e \in dots : e <= d
            IN IF 1 < i /\ i < Len(n) THEN SubSeq(n, i, Len(n)) ELSE <<>>

\* ------------------------------------------------- directories on disk
Prefixes(p) == {SubSeq(p, 1, k) : k \in 1..Len(p)}

\* Path.mkdir(exist_ok=True, parents=True) raises when p or one of its parents
\* exists and is no directory
MkdirRaises(f, p) == \E q \in Prefixes(p) : q \in DOMAIN f /\ f[q].kind # "dir"
mkdir(f, p) == [q \in DOMAIN f \cup Prefixes(p) |-> IF q \in DOMAIN f THEN f[q] ELSE Dir]

rmtree(f, p) == [q \in {r \in DOMAIN f : ~IsPrefix(p, r)} |-> f[q]]

\* tempfile.TemporaryDirectory(): a fresh directory under the system's
\* temporary directory, removed when the with block is left
FreeTmp(f) == {<<NTmp, n>> : n \in TmpNames} \ DOMAIN f
EnterTmp(f) == CHOOSE t \in FreeTmp(f) : TRUE
\* a cleanup that only runs when the block ends normally
ExitTmpOnSuccessOnly(f, tmp_dir, raised) == IF raised THEN f ELSE rmtree(f, tmp_dir)
ExitTmp(f, tmp_dir, raised) == rmtree(f, tmp_dir)

TmpDirsOnDisk(f) == {q \in DOMAIN f : Len(q) = 2 /\ q[1] = NTmp}

\* ZipFile.extractall: every member becomes a file under root, its parents
\* become directories
ExtractRaises(ms) == \E m \in ms, n \in ms : Under(m.name, n.name)
extractall(f, root, ms) ==
    LET files == {root \o m.name : m \in ms}
        dirs == UNION {{root \o SubSeq(m.name, 1, k) : k \in 0..(Len(m.name) - 1)} : m \in ms}
    IN [q \in DOMAIN f \cup dirs \cup files |->
          IF q \in files THEN File((CHOOSE m \in ms : root \o m.name = q).data)
          ELSE IF q \in DOMAIN f THEN f[q] ELSE Dir]

\* ---------------------------------------------------------- process_path
Frame(input_path, output_path, force, recurse, f) ==
    [input_path |-> input_path, output_path |-> output_path, force |-> force,
     recurse |-> recurse, todo |-> iterdir(f, input_path), file |-> None]

Top == stack[Len(stack)]
SetTop(stk, fr) == [stk EXCEPT ![Len(stk)] = fr]

Event(fr, file, ev) ==
    [file |-> file, ev |-> ev, entry |-> Entry(fs, file),
     output_file |-> joinpath(fr.output_path, name(file)),
     dest |-> Entry(fs, joinpath(fr.output_path, name(file))),
     force |-> fr.force]

\* an output directory that mirrors the input subdirectory
RecurseOutputMirrored(fr, file) == joinpath(fr.output_path, name(file))
\* the output directory a recursive call is given
RecurseOutput(fr, file) == fr.output_path

\* a skip that ignores force, and no skip at all
SkipExistingAlways(f, output_file, force) == is_file(f, output_file)
SkipExistingNever(f, output_file, force) == FALSE
\* line 141: the file is skipped as already processed
SkipExisting(f, output_file, force) == is_file(f, output_file) /\ ~force

\* lines 133-150: the rest of the loop body for `file`; stk is the stack with
\* this iteration's bookkeeping done
Body(file, stk) ==
    LET fr == stk[Len(stk)]
        output_file == joinpath(fr.output_path, name(file))
    IN IF lower(suffix(name(file))) \notin VALID_SUFFIXES
         THEN /\ trace' = Append(trace, Event(fr, file, "skip_suffix"))
              /\ stack' = stk
              /\ pc' = "loop"
              /\ UNCHANGED <<fs, rb>>
       ELSE IF SkipExisting(fs, output_file, fr.force)
         THEN /\ trace' = Append(trace, Event(fr, file, "skip_exists"))
              /\ stack' = stk
              /\ pc' = "loop"
              /\ UNCHANGED <<fs, rb>>
       \* line 147 raises, or no temporary directory can be made (line 161)
       ELSE IF MkdirRaises(fs, fr.output_path) \/ FreeTmp(mkdir(fs, fr.output_path)) = {}
         THEN /\ trace' = Append(trace, Event(fr, file, "mkdir_error"))
              /\ stack' = <<>>
              /\ pc' = "aborted"
              /\ UNCHANGED <<fs, rb>>
       ELSE LET made == mkdir(fs, fr.output_path)
                tmp_dir == EnterTmp(made)
            IN /\ trace' = Append(trace, Event(fr, file, "rebuild"))
               /\ stack' = stk
               /\ fs' = (tmp_dir :> Dir) @@ made
               /\ rb' = [input_file |-> file, output_file |-> output_file,
                         tmp_dir |-> tmp_dir]
               /\ pc' = "rb_extract"

\* lines 124-132, the entry is no regular file and is not recursed into
VisitSkipNotFile ==
    /\ pc = "loop"
    /\ \E file \in Top.todo :
         /\ ~is_file(fs, file)
         /\ ~(Top.recurse /\ is_dir(fs, file))
         /\ trace' = Append(trace, Event(Top, file, "skip_notfile"))
         /\ stack' = SetTop(stack, [Top EXCEPT !.todo = @ \ {file}])
    /\ UNCHANGED <<fs, pc, mapping, rb, run, fs0, result>>

\* lines 126-129, the recursive call is entered
VisitRecurse ==
    /\ pc = "loop"
    /\ \E file \in Top.todo :
         /\ ~is_file(fs, file)
         /\ Top.recurse /\ is_dir(fs, file)
         /\ trace' = Append(trace, Event(Top, file, "recurse"))
         /\ stack' = Append(SetTop(stack, [Top EXCEPT !.todo = @ \ {file}, !.file = file]),
                            Frame(file, RecurseOutput(Top, file), Top.force, Top.recurse, fs))
    /\ UNCHANGED <<fs, pc, mapping, rb, run, fs0, result>>

\* the recursive call returns (its loop is over) and the caller goes on with
\* line 133 for the directory it recursed into
ReturnFromRecursion ==
    /\ pc = "loop"
    /\ Len(stack) > 1
    /\ Top.todo = {}
    /\ LET stk == SubSeq(stack, 1, Len(stack) - 1)
           caller == stk[Len(stk)]
       IN Body(caller.file, SetTop(stk, [caller EXCEPT !.file = None]))
    /\ UNCHANGED <<mapping, run, fs0, result>>

\* lines 124, 133-150 for a regular file
VisitFile ==
    /\ pc = "loop"
    /\ \E file \in Top.todo :
         /\ is_file(fs, file)
         /\ Body(file, SetTop(stack, [Top EXCEPT !.todo = @ \ {file}]))
    /\ UNCHANGED <<mapping, run, fs0, result>>

\* the top-level call returns
Finish ==
    /\ pc = "loop"
    /\ Len(stack) = 1
    /\ Top.todo = {}
    /\ pc' = "done"
    /\ stack' = <<>>
    /\ UNCHANGED <<fs, mapping, rb, trace, run, fs0, result>>

\* ----------------------------------------------------------- rebuild_cbz
\* an exception leaves the with blocks and ends the run
Raise(f) ==
    /\ fs' = ExitTmp(f, rb.tmp_dir, TRUE)
    /\ pc' = "aborted"
    /\ stack' = <<>>
    /\ rb' = NoRebuild

\* lines 163-164
RbExtract ==
    /\ pc = "rb_extract"
    /\ \E io_error \in BOOLEAN :
         IF \/ ~is_file(fs, rb.input_file)
            \/ ~fs[rb.input_file].data.zip
            \/ ExtractRaises(fs[rb.input_file].data.members)
            \/ io_error
         THEN Raise(fs)
         ELSE /\ fs' = extractall(fs, rb.tmp_dir, fs[rb.input_file].data.members)
              /\ pc' = "rb_map"
              /\ UNCHANGED <<stack, rb>>
    /\ UNCHANGED <<mapping, trace, run, fs0, result>>

\* line 165
RbMap ==
    /\ pc = "rb_map"
    /\ \E io_error \in BOOLEAN :
         IF io_error
         THEN Raise(fs) /\ UNCHANGED mapping
         ELSE /\ mapping' = build_rename_mapping(fs, rb.tmp_dir, None)
              /\ pc' = "rb_open"
              /\ UNCHANGED <<fs, stack, rb>>
    /\ UNCHANGED <<trace, run, fs0, result>>

\* line 166: the output file is created or truncated
RbOpen ==
    /\ pc = "rb_open"
    /\ \E io_error \in BOOLEAN :
         IF \/ Entry(fs, rb.output_file).kind \notin {"none", "file"}
            \/ ~is_dir(fs, parent(rb.output_file))
            \/ io_error
         THEN Raise(fs)
         ELSE /\ fs' = (rb.output_file :> File(Archive({}))) @@ fs
              /\ pc' = "rb_write"
              /\ UNCHANGED <<stack, rb>>
    /\ UNCHANGED <<mapping, trace, run, fs0, result>>

\* the members written for the keys of m
Written(f, m, keys) == {[name |-> m[k], data |-> Entry(f, k).data] : k \in keys}

\* lines 167-173 and the end of both with blocks
RbWrite ==
    /\ pc = "rb_write"
    /\ \E keys \in SUBSET DOMAIN mapping :
         LET out == (rb.output_file :> File(Archive(Written(fs, mapping, keys)))) @@ fs
         IN IF keys # DOMAIN mapping
            THEN Raise(out)
            ELSE /\ fs' = ExitTmp(out, rb.tmp_dir, FALSE)
                 /\ pc' = "loop"
                 /\ rb' = NoRebuild
                 /\ UNCHANGED stack
    /\ UNCHANGED <<mapping, trace, run, fs0, result>>

\* ---------------------------------------------------------------- a run
\* prefix-closed sets of at most k relative paths
RECURSIVE Shapes(_, _)
Shapes(k, names) ==
    IF k = 0 THEN {{}}
    ELSE LET smaller == Shapes(k - 1, names)
         IN smaller \cup UNION {{S \cup {Append(p, n)} : p \in S \cup {<<>>}, n \in names} :
                                   S \in smaller}

ShapeLeaves(S) == {p \in S : \A q \in S : ~Under(p, q)}

\* what a regular file at p holds: an archive with one nested member, or no archive
ArchiveAt(p) == Archive({[name |-> <<<<"a">>, <<"b">>>>, data |-> Bytes(p)]})
EntryKinds(p) == {Dir, Other, File(ArchiveAt(p)), File(Bytes(p))}

InputTrees ==
    UNION {{[q \in {<<NIn>> \o p : p \in S} |->
                IF relative_to(q, <<NIn>>) \in ShapeLeaves(S)
                THEN leaves[relative_to(q, <<NIn>>)] ELSE Dir] :
              leaves \in {l \in [ShapeLeaves(S) -> UNION {EntryKinds(<<NIn>> \o p) : p \in S}] :
                            \A p \in ShapeLeaves(S) : l[p] \in EntryKinds(<<NIn>> \o p)}} :
           S \in Shapes(MaxTreeEntries, EntryNames)}

\* the output directory: apart from the input (and not there yet), the input
\* directory itself, or a place inside the input tree
OutputPaths == {<<NOut>>, <<NIn>>, <<NIn, NSub>>}

Init ==
    /\ \E tree \in InputTrees, o \in OutputPaths, force \in BOOLEAN, recurse \in BOOLEAN :
         /\ fs = tree @@ (<<NIn>> :> Dir) @@ (<<NTmp>> :> Dir)
         /\ run = [input_path |-> <<NIn>>, output_path |-> o,
                   force |-> force, recurse |-> recurse,
                   rerun |-> FALSE, prev_done |-> FALSE]
    /\ stack = <<Frame(run.input_path, run.output_path, run.force, run.recurse, fs)>>
    /\ pc = "loop"
    /\ mapping = EmptyDict
    /\ rb = NoRebuild
    /\ trace = <<>>
    /\ fs0 = fs
    /\ result = FALSE

\* the same command is run a second time on what the first run left
Rerun ==
    /\ pc = "done"
    /\ ~run.rerun
    /\ run' = [run EXCEPT !.rerun = TRUE, !.prev_done = (pc = "done")]
    /\ stack' = <<Frame(run.input_path, run.output_path, run.force, run.recurse, fs)>>
    /\ pc' = "loop"
    /\ trace' = <<>>
    /\ fs0' = fs
    /\ rb' = NoRebuild
    /\ UNCHANGED <<fs, mapping, result>>

Next ==
    \/ VisitSkipNotFile
    \/ VisitRecurse
    \/ ReturnFromRecursion
    \/ VisitFile
    \/ Finish
    \/ RbExtract
    \/ RbMap
    \/ RbOpen
    \/ RbWrite
    \/ Rerun

Spec == Init /\ [][Next]_vars


\* --------------------------------------------------- validate_input_path
RECURSIVE validate_input_path(_, _, _)
RECURSIVE ValidateLoop(_, _, _)
\* lines 75-93: the loop returns True at the first accepted entry
ValidateLoop(f, todo, recurse) ==
    IF todo = {} THEN FALSE
    ELSE LET sub_path == CHOOSE s \in todo : TRUE
             accepted == IF is_dir(f, sub_path) /\ recurse
                           THEN validate_input_path(f, sub_path, recurse)
                         ELSE suffix(name(sub_path)) \in VALID_SUFFIXES
         IN IF accepted THEN TRUE ELSE ValidateLoop(f, todo \ {sub_path}, recurse)

validate_input_path(f, path, recurse) ==
    IF ~is_dir(f, path) THEN FALSE
    ELSE ValidateLoop(f, iterdir(f, path), recurse)

ValidateKinds == {Dir, Other, File(NoData)}

ValidateTrees ==
    UNION {{[q \in {<<NIn>> \o p : p \in S} |->
                IF relative_to(q, <<NIn>>) \in ShapeLeaves(S)
                THEN leaves[relative_to(q, <<NIn>>)] ELSE Dir] :
              leaves \in [ShapeLeaves(S) -> ValidateKinds]} :
           S \in Shapes(MaxTreeEntries, ValidateNames)}

InitValidate ==
    /\ \E tree \in ValidateTrees, top \in {Dir, File(NoData)}, recurse \in BOOLEAN :
         /\ fs = tree @@ (<<NIn>> :> top)
         /\ top.kind = "file" => DOMAIN tree = {}
         /\ run = [NoRun EXCEPT !.input_path = <<NIn>>, !.recurse = recurse]
    /\ pc = "validate"
    /\ mapping = EmptyDict
    /\ stack = <<>>
    /\ rb = NoRebuild
    /\ trace = <<>>
    /\ fs0 = fs
    /\ result = FALSE

Validate ==
    /\ pc = "validate"
    /\ result' = validate_input_path(fs, run.input_path, run.recurse)
    /\ pc' = "validated"
    /\ UNCHANGED <<fs, mapping, stack, rb, trace, run, fs0>>

NextValidate == Validate

SpecValidate == InitValidate /\ [][NextValidate]_vars

\* ---------------------------------------------------------------- claims
RegularFiles(f, root) == {p \in DOMAIN f : Under(root, p) /\ f[p].kind = "file"}

\* the flattened name of the specification: all segments joined with "_"
RECURSIVE JoinUnderscore(_)
JoinUnderscore(p) ==
    IF Len(p) = 1 THEN p[1] ELSE p[1] \o <<"_">> \o JoinUnderscore(Tail(p))

SpecNewPath(zip_path) ==
    IF Len(zip_path) = 1 THEN zip_path
    ELSE <<zip_path[1], JoinUnderscore(zip_path)>>

\* C1: every regular file under the extraction root maps to first segment /
\* all segments joined with "_", and a file directly at the root maps to itself.
C1_Claim ==
    pc = "mapped" =>
        \A p \in RegularFiles(fs, TmpDir) :
            p \in DOMAIN mapping /\ mapping[p] = SpecNewPath(relative_to(p, TmpDir))

\* C2: the mapping has exactly one entry per regular file under the root, and
\* no directory (nor any other entry) is a key.
C2_OneEntryPerFile ==
    pc = "mapped" => DOMAIN mapping = RegularFiles(fs, TmpDir)

C2_Witness ==
    /\ pc = "mapped"
    /\ Cardinality(DOMAIN mapping) >= 2
    /\ \E p \in DOMAIN mapping, q \in DOMAIN mapping : Len(p) >= 3 /\ Len(q) = 2
    /\ \E d \in DOMAIN fs : Under(TmpDir, d) /\ fs[d].kind = "dir"
\* what the specification's rule makes of an archive
SpecRebuilt(d) == Archive({[name |-> SpecNewPath(m.name), data |-> m.data] : m \in d.members})

\* what the code's mapping makes of an archive
Rebuilt(d) == Archive({[name |-> NewPath(m.name), data |-> m.data] : m \in d.members})

Events == {trace[i] : i \in DOMAIN trace}
Last(s) == s[Len(s)]
InRebuild == pc \in {"rb_extract", "rb_map", "rb_open", "rb_write"}
RebuildReturned == pc = "loop" /\ trace # <<>> /\ Last(trace).ev = "rebuild"
EligibleEvent(e) ==
    e.entry.kind = "file" /\ lower(suffix(name(e.file))) \in VALID_SUFFIXES

\* C3: the archive rebuild writes holds, for each file of the input archive,
\* exactly one member with the same content under the file's flattened name
\* (first segment / all segments joined with "_"), and nothing else.
C3_Claim ==
    RebuildReturned =>
        Entry(fs, Last(trace).output_file) = File(SpecRebuilt(Last(trace).entry.data))

\* C4: a run never deletes, creates or changes an entry of the input tree,
\* wherever the output directory is.
C4_Claim ==
    \A p \in DOMAIN fs \cup DOMAIN fs0 :
        IsPrefix(run.input_path, p) => Entry(fs, p) = Entry(fs0, p)

\* C5: an eligible archive whose destination exists as a file is skipped when
\* force is false (no rebuild, destination unchanged, the run goes on), and is
\* rebuilt over the destination when force is true; the same command run again
\* without force after a completed run changes nothing under the output directory.
C5_SkipOrOverwrite ==
    /\ \A e \in Events :
         EligibleEvent(e) /\ e.dest.kind = "file" =>
            IF e.force THEN e.ev = "rebuild"
            ELSE e.ev = "skip_exists" /\ Entry(fs, e.output_file) = e.dest
    /\ pc = "aborted" => Last(trace).ev \notin {"skip_exists", "skip_suffix", "skip_notfile"}
    /\ RebuildReturned =>
          Entry(fs, Last(trace).output_file) = File(Rebuilt(Last(trace).entry.data))
    /\ run.rerun /\ ~run.force =>
          /\ \A e \in Events : e.ev # "rebuild"
          /\ \A p \in DOMAIN fs \cup DOMAIN fs0 :
                IsPrefix(run.output_path, p) => Entry(fs, p) = Entry(fs0, p)

C5_Witness ==
    /\ run.rerun /\ ~run.force /\ pc = "done"
    /\ \E e \in Events : EligibleEvent(e) /\ e.ev = "skip_exists"
    /\ \E p \in DOMAIN fs : Under(run.output_path, p) /\ ~Under(run.input_path, p)

\* C6: once a rebuild_cbz call has returned or raised, its temporary directory
\* is gone: outside a call no temporary directory exists, and during a call
\* only the call's own.
C6_TmpRemoved ==
    /\ ~InRebuild => \A p \in DOMAIN fs : ~Under(<<NTmp>>, p)
    /\ InRebuild => TmpDirsOnDisk(fs) = {rb.tmp_dir}

C6_Witness ==
    /\ pc = "aborted"
    /\ Len(trace) >= 2
    /\ Last(trace).ev = "rebuild"
    /\ \E i \in 1..(Len(trace) - 1) : trace[i].ev = "rebuild"

\* C8: an entry that meets a skip condition (no recognized extension, no
\* regular file, destination present without force) never has rebuild invoked
\* on it and never ends the run.
C8_Claim ==
    \A e \in Events :
        \/ e.entry.kind # "file"
        \/ lower(suffix(name(e.file))) \notin VALID_SUFFIXES
        \/ (e.dest.kind = "file" /\ ~e.force)
        => e.ev \in {"skip_notfile", "recurse", "skip_suffix", "skip_exists"}

\* C9: with recurse, every call of process_path has the top-level output
\* directory, every rebuild writes to outputDir/<name of its archive>, and no
\* directory is created below the output directory.
C9_FlatOutput ==
    /\ \A i \in DOMAIN stack : stack[i].output_path = run.output_path
    /\ \A e \in Events :
          e.ev = "rebuild" => e.output_file = run.output_path \o <<name(e.file)>>
    /\ InRebuild => rb.output_file = run.output_path \o <<name(rb.input_file)>>
    /\ \A p \in DOMAIN fs :
          Under(run.output_path, p) /\ fs[p].kind = "dir" => is_dir(fs0, p)

C9_Witness ==
    /\ run.recurse /\ pc = "done"
    /\ \E e \in Events :
          /\ e.ev = "rebuild" /\ Len(e.file) >= 4
          /\ is_file(fs, run.output_path \o <<name(e.file)>>)

\* the events of the entries that got past the extension check
Visited(i) == trace[i].ev \in {"skip_exists", "rebuild"}

\* C10: without force an output name is rebuilt at most once in a run, by the
\* first archive visited that has it, every later one is skipped and the
\* output holds the first one's rebuilt content; with force every eligible
\* archive is rebuilt and the output holds what was rebuilt last.
C10_FirstOrLastWins ==
    /\ \A i \in DOMAIN trace, j \in DOMAIN trace :
          /\ i < j /\ Visited(i) /\ Visited(j)
          /\ trace[i].output_file = trace[j].output_file
          /\ ~run.force
          => trace[j].ev = "skip_exists"
    /\ \A i \in DOMAIN trace :
          /\ trace[i].ev = "rebuild" /\ ~run.force
          /\ (i < Len(trace) \/ pc \in {"loop", "done"})
          => Entry(fs, trace[i].output_file) = File(Rebuilt(trace[i].entry.data))
    /\ \A i \in DOMAIN trace :
          run.force /\ EligibleEvent(trace[i]) => trace[i].ev \in {"rebuild", "mkdir_error"}
    /\ \A i \in DOMAIN trace :
          /\ trace[i].ev = "rebuild" /\ run.force
          /\ (i < Len(trace) \/ pc \in {"loop", "done"})
          /\ \A j \in DOMAIN trace :
                j > i => ~(trace[j].ev = "rebuild" /\ trace[j].output_file = trace[i].output_file)
          => Entry(fs, trace[i].output_file) = File(Rebuilt(trace[i].entry.data))

C10_Witness ==
    /\ ~run.force /\ ~run.rerun /\ pc = "done"
    /\ \E i \in DOMAIN trace, j \in DOMAIN trace :
          /\ i < j
          /\ EligibleEvent(trace[i]) /\ EligibleEvent(trace[j])
          /\ trace[i].ev = "rebuild" /\ trace[j].ev = "skip_exists"
          /\ trace[i].output_file = trace[j].output_file
          /\ trace[i].file # trace[j].file
          /\ Entry(fs, trace[i].output_file) = File(Rebuilt(trace[i].entry.data))

\* a regular file with a recognized extension below path
EligibleBelow(f, path, recurse) ==
    \E p \in DOMAIN f :
        /\ Under(path, p)
        /\ recurse \/ Len(p) = Len(path) + 1
        /\ f[p].kind = "file"
        /\ lower(suffix(name(p))) \in VALID_SUFFIXES

\* C7: validate_input_path is true exactly for a directory that holds,
\* directly or (with recurse) at any depth, a regular file whose extension is
\* .cbz or .zip in any letter case.
C7_Claim ==
    pc = "validated" =>
        (result <=> (is_dir(fs, run.input_path) /\ EligibleBelow(fs, run.input_path, run.recurse)))
====
